---- MODULE Spec2Model ----
(***************************************************************************)
(* Model of dataikuapi/govern/artifact_search_handler.py: the artifact     *)
(* search query builder (GovernArtifactSearchQuery with its sources,       *)
(* filters and sorts) and the cursor-paginated search request              *)
(* (GovernArtifactSearchRequest.perform_search); and of the thin handles   *)
(* GovernCustomPage (govern/custom_page.py) and DSSSavedModel              *)
(* (dss/savedmodel.py).                                                    *)
(*                                                                         *)
(* Python values.  A nullable Python value is a sequence of length <= 1:   *)
(* None is <<>> and a non-None value v is <<v>>.  A dict is a function     *)
(* whose domain is its set of keys, so an absent key and a key holding     *)
(* null are different dicts.  Keyword arguments of a call are a dict too:  *)
(* an omitted argument is an absent key.                                   *)
(***************************************************************************)
EXTENDS Integers, Sequences, FiniteSets, TLC

VARIABLES
    \* GovernArtifactSearchQuery fields
    artifact_search_source, artifact_filters_list, artifact_search_sort,
    \* history of the query: constructor arguments, mutator calls, last build(),
    \* and what the mutators were last called with
    ctor, nmut, built, qh,
    \* GovernArtifactSearchRequest fields
    search_source, query, last_artifact_id,
    \* perform_search activations, one per caller: position and locals
    pc, frame,
    \* what the caller of the last finished perform_search of each caller saw
    outcome,
    \* the transport: every request received, in order
    wire,
    \* history of the request: invocations started, ids returned by the server,
    \* lastArtifactId of the last successful response, cursor versions
    hist,
    \* the thin handles: the handle objects and the server data they address, the
    \* requests the last handle method made, and what its caller saw
    hobj, hlog, hout

queryVars == <<artifact_search_source, artifact_filters_list, artifact_search_sort,
               ctor, nmut, built, qh>>
requestVars == <<search_source, query, last_artifact_id>>
callVars == <<pc, frame, outcome, wire, hist>>
handleVars == <<hobj, hlog, hout>>
vars == <<artifact_search_source, artifact_filters_list, artifact_search_sort,
          ctor, nmut, built, qh, search_source, query, last_artifact_id,
          pc, frame, outcome, wire, hist, hobj, hlog, hout>>

----------------------------------------------------------------------------
\* Python values

None == <<>>
Val(v) == <<v>>
EmptyDict == [k \in {} |-> None]

\* dict.get(key): the value under key, None when the key is absent
DictGet(d, key) == IF key \in DOMAIN d THEN d[key] ELSE None

\* a parameter's value in a call: the keyword argument, or the default
Param(kwargs, name, default) == IF name \in DOMAIN kwargs THEN kwargs[name] ELSE default

----------------------------------------------------------------------------
\* Bounds

\* filters a query may hold
MaxFilters == 2
\* mutator calls on one query
MaxMutations == 3
\* perform_search invocations on one request
MaxCalls == 3

----------------------------------------------------------------------------
\* Search sources
\* (an id list is kept as a nullable value, Val(<<...>>), here and in the payload:
\* the empty list Val(<<>>) and null, None, are different payload values)

GovernArtifactSearchSourceAll ==
    [cls |-> "GovernArtifactSearchSourceAll", search_source_type |-> "all"]

\* (variant: the ids are kept as given, None included)
GovernArtifactSearchSourceBlueprintsIdsAsGiven(blueprint_ids) ==
    [cls |-> "GovernArtifactSearchSourceBlueprints",
     search_source_type |-> "blueprints",
     blueprint_ids |-> blueprint_ids]

GovernArtifactSearchSourceBlueprints(blueprint_ids) ==
    [cls |-> "GovernArtifactSearchSourceBlueprints",
     search_source_type |-> "blueprints",
     blueprint_ids |-> IF blueprint_ids # None THEN blueprint_ids ELSE Val(<<>>)]

GovernArtifactSearchSourceBlueprintVersions(blueprint_version_ids) ==
    [cls |-> "GovernArtifactSearchSourceBlueprintVersions",
     search_source_type |-> "blueprintVersions",
     blueprint_version_ids |->
        IF blueprint_version_ids # None THEN blueprint_version_ids ELSE Val(<<>>)]

GovernArtifactSearchSourceArtifacts(artifact_ids) ==
    [cls |-> "GovernArtifactSearchSourceArtifacts",
     search_source_type |-> "artifacts",
     artifact_ids |-> IF artifact_ids # None THEN artifact_ids ELSE Val(<<>>)]

SourceBuild(s) ==
    CASE s.cls = "GovernArtifactSearchSourceAll" ->
            [type |-> "all"]
      [] s.cls = "GovernArtifactSearchSourceBlueprints" ->
            [type |-> s.search_source_type, blueprintIds |-> s.blueprint_ids]
      [] s.cls = "GovernArtifactSearchSourceBlueprintVersions" ->
            [type |-> s.search_source_type, blueprintVersionIds |-> s.blueprint_version_ids]
      [] s.cls = "GovernArtifactSearchSourceArtifacts" ->
            [type |-> s.search_source_type, artifactIds |-> s.artifact_ids]

GovernBlueprintVersionIdBuilder(blueprint_id, version_id) ==
    [blueprintId |-> blueprint_id, versionId |-> version_id]

----------------------------------------------------------------------------
\* Search sorts

GovernArtifactSearchSortName(kwargs) ==
    [cls |-> "GovernArtifactSearchSortName",
     artifact_search_sort_type |-> "name",
     direction |-> Param(kwargs, "direction", "ASC")]

GovernArtifactSearchSortWorkflow(kwargs) ==
    [cls |-> "GovernArtifactSearchSortWorkflow",
     artifact_search_sort_type |-> "workflow",
     direction |-> Param(kwargs, "direction", "ASC")]

GovernArtifactSearchSortField(kwargs) ==
    [cls |-> "GovernArtifactSearchSortField",
     artifact_search_sort_type |-> "field",
     direction |-> Param(kwargs, "direction", "ASC"),
     fields |-> LET f == Param(kwargs, "fields", None)
                IN  IF f # None THEN f ELSE Val(<<>>)]

\* (variant: the field sort is built like the name sort, without its fields)
SortBuildWithoutFields(s) ==
    [direction |-> s.direction, column |-> [type |-> s.artifact_search_sort_type]]

SortBuild(s) ==
    IF s.cls = "GovernArtifactSearchSortField"
    THEN [direction |-> s.direction,
          column |-> [type |-> s.artifact_search_sort_type, fields |-> s.fields]]
    ELSE [direction |-> s.direction,
          column |-> [type |-> s.artifact_search_sort_type]]

GovernSearchSortFieldBuilder(blueprint_id, field_id) ==
    [blueprintId |-> blueprint_id, fieldId |-> field_id]

----------------------------------------------------------------------------
\* Search filters

GovernFieldValueArtifactFilter(condition_type, kwargs) ==
    [cls |-> "GovernFieldValueArtifactFilter",
     filter_type |-> "field",
     condition_type |-> condition_type,
     condition |-> Param(kwargs, "condition", None),
     field_id |-> Param(kwargs, "field_id", None),
     negate_condition |-> Param(kwargs, "negate_condition", None),
     case_sensitive |-> Param(kwargs, "case_sensitive", None)]

GovernArchivedStatusArtifactFilter(is_archived) ==
    [cls |-> "GovernArchivedStatusArtifactFilter",
     filter_type |-> "archived",
     is_archived |-> is_archived]

\* (variant: the key is set whatever the value, null included)
SetAlways(d, key, v) == (key :> v) @@ d

\* the dict d with key set to the nullable value v when v is not None
\* (the payload holds the value as a nullable value: a null would be None)
SetIfNotNone(d, key, v) == IF v # None THEN (key :> v) @@ d ELSE d

FilterBuild(f) ==
    IF f.cls = "GovernFieldValueArtifactFilter"
    THEN SetIfNotNone(
           SetIfNotNone(
             SetIfNotNone(
               SetIfNotNone([type |-> f.filter_type, conditionType |-> f.condition_type],
                            "condition", f.condition),
               "fieldId", f.field_id),
             "negateCondition", f.negate_condition),
           "caseSensitive", f.case_sensitive)
    ELSE [type |-> f.filter_type, isArchived |-> f.is_archived]

----------------------------------------------------------------------------
\* GovernArtifactSearchQuery

\* (variant: the default source is the blueprints source)
QueryInitDefaultBlueprints(src, filters, sort) ==
    [artifact_search_source |->
        IF src # None THEN src[1] ELSE GovernArtifactSearchSourceBlueprints(None),
     artifact_filters_list |-> IF filters # None THEN filters[1] ELSE <<>>,
     artifact_search_sort |-> sort]

\* the fields after __init__(artifact_search_source, artifact_filters_list,
\* artifact_search_sort), each argument nullable (None when omitted)
QueryInit(src, filters, sort) ==
    [artifact_search_source |->
        IF src # None THEN src[1] ELSE GovernArtifactSearchSourceAll,
     artifact_filters_list |-> IF filters # None THEN filters[1] ELSE <<>>,
     artifact_search_sort |-> sort]

\* (variant: the sort goes under the key sort)
QueryBuildSortKey(src, filters, sort) ==
    LET q == [artifactFilters |-> [i \in 1..Len(filters) |-> FilterBuild(filters[i])]]
    IN  <<SourceBuild(src),
          IF sort # None THEN ("sort" :> SortBuild(sort[1])) @@ q ELSE q>>

\* build() of a query with the given fields: the pair (source payload, query payload)
QueryBuild(src, filters, sort) ==
    LET q == [artifactFilters |-> [i \in 1..Len(filters) |-> FilterBuild(filters[i])]]
    IN  <<SourceBuild(src),
          IF sort # None THEN ("artifactSearchSort" :> SortBuild(sort[1])) @@ q ELSE q>>

----------------------------------------------------------------------------
\* Inputs of the query builder

SourceInputs ==
    {GovernArtifactSearchSourceAll,
     GovernArtifactSearchSourceBlueprints(None),
     GovernArtifactSearchSourceBlueprints(Val(<<"bp-1">>)),
     GovernArtifactSearchSourceBlueprintVersions(
        Val(<<GovernBlueprintVersionIdBuilder("bp-1", "v-1")>>)),
     GovernArtifactSearchSourceArtifacts(Val(<<"art-41">>))}

SortInputs ==
    {GovernArtifactSearchSortName(EmptyDict),
     GovernArtifactSearchSortName([direction |-> "DESC"]),
     GovernArtifactSearchSortWorkflow(EmptyDict),
     GovernArtifactSearchSortField(
        [fields |-> Val(<<GovernSearchSortFieldBuilder("bp-1", "f-1")>>),
         direction |-> "DESC"])}

FilterInputs ==
    {GovernArchivedStatusArtifactFilter(FALSE),
     GovernFieldValueArtifactFilter("EQUALS", EmptyDict),
     GovernFieldValueArtifactFilter("CONTAINS",
        [condition |-> Val("abc"), negate_condition |-> Val(FALSE)])}

\* arguments given to the constructor of the query (None: omitted)
CtorSources == {None, Val(GovernArtifactSearchSourceBlueprints(Val(<<"bp-1">>)))}
CtorFilters == {None, Val(<<>>), Val(<<GovernArchivedStatusArtifactFilter(TRUE)>>)}
CtorSorts == {None, Val(GovernArtifactSearchSortWorkflow([direction |-> "DESC"]))}

\* built: no build() result is held (none yet, or a mutator ran since the last one)
NotBuilt == <<>>

\* qh: the filters added since the construction or the last clear_artifact_filters,
\* whether clear_artifact_filters was called, and the last call, if any, that set
\* or cleared the sort and that set the source
NoMutatorCalled == [added |-> <<>>, cleared |-> FALSE, sort_call |-> None, source_call |-> None]

----------------------------------------------------------------------------
\* GovernArtifactSearchQuery operations

\* (variant: a new source drops the filters)
set_artifact_search_sourceDropsFilters(src) ==
    /\ nmut < MaxMutations
    /\ artifact_search_source' = src
    /\ artifact_filters_list' = <<>>
    /\ nmut' = nmut + 1
    /\ built' = NotBuilt
    /\ qh' = [qh EXCEPT !.source_call = Val(src)]
    /\ UNCHANGED <<artifact_search_sort, ctor>>

set_artifact_search_source(src) ==
    /\ nmut < MaxMutations
    /\ artifact_search_source' = src
    /\ nmut' = nmut + 1
    /\ built' = NotBuilt
    /\ qh' = [qh EXCEPT !.source_call = Val(src)]
    /\ UNCHANGED <<artifact_filters_list, artifact_search_sort, ctor>>

\* (variant: the filter list is left as it is)
clear_artifact_filtersKeepsList ==
    /\ nmut < MaxMutations
    /\ nmut' = nmut + 1
    /\ built' = NotBuilt
    /\ qh' = [qh EXCEPT !.added = <<>>, !.cleared = TRUE]
    /\ UNCHANGED <<artifact_search_source, artifact_filters_list, artifact_search_sort, ctor>>

clear_artifact_filters ==
    /\ nmut < MaxMutations
    /\ artifact_filters_list' = <<>>
    /\ nmut' = nmut + 1
    /\ built' = NotBuilt
    /\ qh' = [qh EXCEPT !.added = <<>>, !.cleared = TRUE]
    /\ UNCHANGED <<artifact_search_source, artifact_search_sort, ctor>>

\* (variant: the filter is put in front of the list)
add_artifact_filterInFront(f) ==
    /\ nmut < MaxMutations
    /\ Len(artifact_filters_list) < MaxFilters
    /\ artifact_filters_list' = <<f>> \o artifact_filters_list
    /\ nmut' = nmut + 1
    /\ built' = NotBuilt
    /\ qh' = [qh EXCEPT !.added = Append(@, f)]
    /\ UNCHANGED <<artifact_search_source, artifact_search_sort, ctor>>

add_artifact_filter(f) ==
    /\ nmut < MaxMutations
    /\ Len(artifact_filters_list) < MaxFilters
    /\ artifact_filters_list' = Append(artifact_filters_list, f)
    /\ nmut' = nmut + 1
    /\ built' = NotBuilt
    /\ qh' = [qh EXCEPT !.added = Append(@, f)]
    /\ UNCHANGED <<artifact_search_source, artifact_search_sort, ctor>>

clear_artifact_search_sort ==
    /\ nmut < MaxMutations
    /\ artifact_search_sort' = None
    /\ nmut' = nmut + 1
    /\ built' = NotBuilt
    /\ qh' = [qh EXCEPT !.sort_call = Val([op |-> "clear", arg |-> None])]
    /\ UNCHANGED <<artifact_search_source, artifact_filters_list, ctor>>

\* (variant: a sort already set is kept)
set_artifact_search_sortKeepsFirst(sort) ==
    /\ nmut < MaxMutations
    /\ artifact_search_sort' = IF artifact_search_sort # None THEN artifact_search_sort ELSE sort
    /\ nmut' = nmut + 1
    /\ built' = NotBuilt
    /\ qh' = [qh EXCEPT !.sort_call = Val([op |-> "set", arg |-> sort])]
    /\ UNCHANGED <<artifact_search_source, artifact_filters_list, ctor>>

\* (sort is the argument as a nullable value: the method accepts None too)
set_artifact_search_sort(sort) ==
    /\ nmut < MaxMutations
    /\ artifact_search_sort' = sort
    /\ nmut' = nmut + 1
    /\ built' = NotBuilt
    /\ qh' = [qh EXCEPT !.sort_call = Val([op |-> "set", arg |-> sort])]
    /\ UNCHANGED <<artifact_search_source, artifact_filters_list, ctor>>

\* (variant: build() takes the filters out of the list)
buildDrainsFilters ==
    /\ built' = <<QueryBuild(artifact_search_source, artifact_filters_list,
                             artifact_search_sort),
                  IF built = NotBuilt THEN None ELSE Val(built[1])>>
    /\ artifact_filters_list' = <<>>
    /\ UNCHANGED <<artifact_search_source, artifact_search_sort, ctor, nmut, qh>>

\* build(): built holds what it returned and, after it, what the build() before it
\* returned if no mutator was called in between (None if there was none)
build ==
    /\ built' = <<QueryBuild(artifact_search_source, artifact_filters_list,
                             artifact_search_sort),
                  IF built = NotBuilt THEN None ELSE Val(built[1])>>
    /\ UNCHANGED <<artifact_search_source, artifact_filters_list,
                   artifact_search_sort, ctor, nmut, qh>>

----------------------------------------------------------------------------
\* GovernArtifactSearchRequest

\* default of perform_search's page_size parameter
DefaultPageSize == 20

\* callers of perform_search on the one request
Threads == {1, 2}

\* ids the server issues as lastArtifactId, and ids only a client comes up with
ServerIds == {"art-41", "art-42"}
ClientIds == {"cli-7"}

\* keyword arguments of perform_search
PlainKwArgs == {EmptyDict, [page_size |-> 5]}
CursorKwArgs ==
    {kw @@ [last_artifact_id |-> id] :
        kw \in PlainKwArgs, id \in {None, Val("art-41"), Val("cli-7")}}
KwArgs == PlainKwArgs \cup CursorKwArgs

\* what the transport's _perform_json returns: the JSON object of the response
Responses ==
    {[hasNextPage |-> FALSE], [hasNextPage |-> FALSE, lastArtifactId |-> None]}
    \cup {[hasNextPage |-> TRUE, lastArtifactId |-> Val(id)] : id \in ServerIds}
\* what it raises
Failures == {"DataikuException", "ConnectionError"}

NoFrame == <<>>
NoCall == <<>>

\* the fields after __init__(client, artifact_search_query)
RequestInit(src, filters, sort) ==
    LET b == QueryBuild(src, filters, sort)
    IN  [search_source |-> b[1], query |-> b[2], last_artifact_id |-> None]

\* (variant: the explicit last_artifact_id is dropped)
OverrideCursorIgnored(cursor, arg) == cursor

\* (variant: the argument is stored whatever it is, None included)
OverrideCursorNoneResets(cursor, arg) == arg

\* lines 49-50: the stored cursor once an explicit last_artifact_id is applied
OverrideCursor(cursor, arg) == IF arg # None THEN arg ELSE cursor

\* (variant: the cursor goes out under the key lastId)
RequestBodyLastId(ss, q, page_size, cursor) ==
    [searchSource |-> ss,
     query |-> q,
     artifactSearchPagination |-> [pageSize |-> page_size, lastId |-> cursor]]

\* lines 52-59
RequestBody(ss, q, page_size, cursor) ==
    [searchSource |-> ss,
     query |-> q,
     artifactSearchPagination |-> [pageSize |-> page_size, lastArtifactId |-> cursor]]

\* (variant: the cursor is never taken from the response)
NextCursorStale(result) == last_artifact_id
\* (variant: the cursor is kept when the response has no lastArtifactId)
NextCursorKeptWhenAbsent(result) ==
    IF "lastArtifactId" \in DOMAIN result THEN result["lastArtifactId"] ELSE last_artifact_id

\* line 64: the cursor taken from a response
NextCursor(result) == DictGet(result, "lastArtifactId")

\* a write of the stored cursor starts a new version of it; the version it
\* replaces is lost when the server issued it and no request has read it
WriteVersion(h, fromServer) ==
    [h EXCEPT !.ver = @ + 1, !.used = FALSE, !.fromServer = fromServer,
              !.lost = @ \/ (h.fromServer /\ ~h.used)]

\* perform_search is entered: the parameters are bound
Call(t, kwargs) ==
    /\ pc[t] = "idle"
    /\ hist.calls < MaxCalls
    /\ pc' = [pc EXCEPT ![t] = "L49"]
    /\ frame' = [frame EXCEPT ![t] =
            [kwargs |-> kwargs,
             page_size |-> Param(kwargs, "page_size", DefaultPageSize),
             last_artifact_id |-> Param(kwargs, "last_artifact_id", None),
             pre |-> last_artifact_id,
             body |-> None, result |-> None, readVer |-> 0, ntransport |-> 0]]
    /\ hist' = [hist EXCEPT
            !.calls = @ + 1,
            !.plain = @ /\ Param(kwargs, "last_artifact_id", None) = None,
            !.overlap = @ \/ \E u \in Threads \ {t} : pc[u] # "idle"]
    /\ UNCHANGED <<queryVars, requestVars, outcome, wire>>

\* lines 49-50
L49(t) ==
    /\ pc[t] = "L49"
    /\ last_artifact_id' = OverrideCursor(last_artifact_id, frame[t].last_artifact_id)
    /\ hist' = IF frame[t].last_artifact_id # None THEN WriteVersion(hist, FALSE) ELSE hist
    /\ pc' = [pc EXCEPT ![t] = "L52"]
    /\ UNCHANGED <<queryVars, search_source, query, frame, outcome, wire>>

\* (variant: the body is built from the query as it is now)
L52RebuildsQuery(t) ==
    /\ pc[t] = "L52"
    /\ frame' = [frame EXCEPT
            ![t].body =
                LET b == QueryBuild(artifact_search_source, artifact_filters_list,
                                    artifact_search_sort)
                IN  RequestBody(b[1], b[2], frame[t].page_size, last_artifact_id),
            ![t].readVer = hist.ver]
    /\ hist' = [hist EXCEPT !.used = TRUE]
    /\ pc' = [pc EXCEPT ![t] = "L61"]
    /\ UNCHANGED <<queryVars, requestVars, outcome, wire>>

\* lines 52-59: the body is built from the stored cursor
L52(t) ==
    /\ pc[t] = "L52"
    /\ frame' = [frame EXCEPT
            ![t].body = RequestBody(search_source, query, frame[t].page_size,
                                    last_artifact_id),
            ![t].readVer = hist.ver]
    /\ hist' = [hist EXCEPT !.used = TRUE]
    /\ pc' = [pc EXCEPT ![t] = "L61"]
    /\ UNCHANGED <<queryVars, requestVars, outcome, wire>>

\* line 61: the request goes out
L61Send(t) ==
    /\ pc[t] = "L61"
    /\ wire' = [n |-> wire.n + 1,
                last |-> Val([method |-> "POST", path |-> "/artifacts/search",
                              body |-> frame[t].body])]
    /\ frame' = [frame EXCEPT ![t].ntransport = @ + 1]
    /\ pc' = [pc EXCEPT ![t] = "wait"]
    /\ UNCHANGED <<queryVars, requestVars, outcome, hist>>

\* line 61: _perform_json returns the response
L61Return(t, result) ==
    /\ pc[t] = "wait"
    /\ frame' = [frame EXCEPT ![t].result = result]
    /\ hist' = [hist EXCEPT
            !.lastResp = DictGet(result, "lastArtifactId"),
            !.returned = @ \cup {DictGet(result, "lastArtifactId")[i] :
                                    i \in DOMAIN DictGet(result, "lastArtifactId")},
            !.fetched = @ \cup {frame[t].readVer},
            !.dup = @ \/ frame[t].readVer \in hist.fetched]
    /\ pc' = [pc EXCEPT ![t] = "L64"]
    /\ UNCHANGED <<queryVars, requestVars, outcome, wire>>

\* (variant: the failure is caught and the request sent again)
L61RaiseRetries(t, exc) ==
    /\ pc[t] = "wait"
    /\ hist' = [hist EXCEPT !.plain = FALSE, !.lastExc = Val(exc)]
    /\ pc' = [pc EXCEPT ![t] = "L61"]
    /\ UNCHANGED <<queryVars, requestVars, frame, outcome, wire>>

\* (variant: the failure clears the stored cursor before it propagates)
L61RaiseClearsCursor(t, exc) ==
    /\ pc[t] = "wait"
    /\ last_artifact_id' = None
    /\ outcome' = [outcome EXCEPT ![t] =
            [kind |-> "raise", value |-> exc, kwargs |-> frame[t].kwargs,
             body |-> frame[t].body, pre |-> frame[t].pre,
             ntransport |-> frame[t].ntransport]]
    /\ hist' = [hist EXCEPT !.plain = FALSE, !.lastExc = Val(exc)]
    /\ frame' = [frame EXCEPT ![t] = NoFrame]
    /\ pc' = [pc EXCEPT ![t] = "idle"]
    /\ UNCHANGED <<queryVars, search_source, query, wire>>

\* line 61: _perform_json raises; nothing catches it, perform_search ends
L61Raise(t, exc) ==
    /\ pc[t] = "wait"
    /\ outcome' = [outcome EXCEPT ![t] =
            [kind |-> "raise", value |-> exc, kwargs |-> frame[t].kwargs,
             body |-> frame[t].body, pre |-> frame[t].pre,
             ntransport |-> frame[t].ntransport]]
    /\ hist' = [hist EXCEPT !.plain = FALSE, !.lastExc = Val(exc)]
    /\ frame' = [frame EXCEPT ![t] = NoFrame]
    /\ pc' = [pc EXCEPT ![t] = "idle"]
    /\ UNCHANGED <<queryVars, requestVars, wire>>

\* (variant: line 64 is missing, the response is returned and the cursor left)
L64CursorNotWritten(t) ==
    /\ pc[t] = "L64"
    /\ outcome' = [outcome EXCEPT ![t] =
            [kind |-> "return", value |-> frame[t].result, kwargs |-> frame[t].kwargs,
             body |-> frame[t].body, pre |-> frame[t].pre,
             ntransport |-> frame[t].ntransport]]
    /\ frame' = [frame EXCEPT ![t] = NoFrame]
    /\ pc' = [pc EXCEPT ![t] = "idle"]
    /\ UNCHANGED <<queryVars, requestVars, wire, hist>>

\* (variant: a response without lastArtifactId leaves the cursor of the call)
L64StaysOnLastPage(t) ==
    /\ pc[t] = "L64"
    /\ last_artifact_id' = IF NextCursor(frame[t].result) = None
                           THEN last_artifact_id
                           ELSE NextCursor(frame[t].result)
    /\ hist' = WriteVersion(hist, TRUE)
    /\ outcome' = [outcome EXCEPT ![t] =
            [kind |-> "return", value |-> frame[t].result, kwargs |-> frame[t].kwargs,
             body |-> frame[t].body, pre |-> frame[t].pre,
             ntransport |-> frame[t].ntransport]]
    /\ frame' = [frame EXCEPT ![t] = NoFrame]
    /\ pc' = [pc EXCEPT ![t] = "idle"]
    /\ UNCHANGED <<queryVars, search_source, query, wire>>

\* lines 64-66: the cursor is taken from the response, the response returned
L64(t) ==
    /\ pc[t] = "L64"
    /\ last_artifact_id' = NextCursor(frame[t].result)
    /\ hist' = WriteVersion(hist, TRUE)
    /\ outcome' = [outcome EXCEPT ![t] =
            [kind |-> "return", value |-> frame[t].result, kwargs |-> frame[t].kwargs,
             body |-> frame[t].body, pre |-> frame[t].pre,
             ntransport |-> frame[t].ntransport]]
    /\ frame' = [frame EXCEPT ![t] = NoFrame]
    /\ pc' = [pc EXCEPT ![t] = "idle"]
    /\ UNCHANGED <<queryVars, search_source, query, wire>>

----------------------------------------------------------------------------
\* Specifications

\* a query as its constructor leaves it, given arguments among args
QueryConstructed(args) ==
    \E src \in args[1], filters \in args[2], sort \in args[3] :
        LET q == QueryInit(src, filters, sort)
        IN  /\ artifact_search_source = q.artifact_search_source
            /\ artifact_filters_list = q.artifact_filters_list
            /\ artifact_search_sort = q.artifact_search_sort
            /\ ctor = [artifact_search_source |-> src,
                       artifact_filters_list |-> filters,
                       artifact_search_sort |-> sort]
            /\ nmut = 0
            /\ built = NotBuilt
            /\ qh = NoMutatorCalled

CallsIdle ==
    /\ pc = [t \in Threads |-> "idle"]
    /\ frame = [t \in Threads |-> NoFrame]
    /\ outcome = [t \in Threads |-> NoCall]
    /\ wire = [n |-> 0, last |-> None]
    /\ hist = [calls |-> 0, plain |-> TRUE, overlap |-> FALSE,
               lastResp |-> None, lastExc |-> None, returned |-> {},
               ver |-> 0, used |-> FALSE, fromServer |-> FALSE,
               fetched |-> {}, dup |-> FALSE, lost |-> FALSE]

\* no handle is in use
NoHandles == <<>>
HandlesIdle == hobj = NoHandles /\ hlog = <<>> /\ hout = NoCall

\* a request built by build_request from a query just constructed
RequestConstructed ==
    LET r == RequestInit(artifact_search_source, artifact_filters_list,
                         artifact_search_sort)
    IN  /\ search_source = r.search_source
        /\ query = r.query
        /\ last_artifact_id = r.last_artifact_id

\* the query builder alone: no request is built
InitQuery ==
    /\ QueryConstructed(<<CtorSources, CtorFilters, CtorSorts>>)
    /\ search_source = EmptyDict /\ query = EmptyDict /\ last_artifact_id = None
    /\ CallsIdle
    /\ HandlesIdle

NextQuery ==
    \/ \E src \in SourceInputs : set_artifact_search_source(src) /\ UNCHANGED <<requestVars, callVars, handleVars>>
    \/ clear_artifact_filters /\ UNCHANGED <<requestVars, callVars, handleVars>>
    \/ \E f \in FilterInputs : add_artifact_filter(f) /\ UNCHANGED <<requestVars, callVars, handleVars>>
    \/ clear_artifact_search_sort /\ UNCHANGED <<requestVars, callVars, handleVars>>
    \/ \E sort \in {None} \cup {Val(x) : x \in SortInputs} :
            set_artifact_search_sort(sort) /\ UNCHANGED <<requestVars, callVars, handleVars>>
    \/ build /\ UNCHANGED <<requestVars, callVars, handleVars>>

SpecQuery == InitQuery /\ [][NextQuery]_vars

\* one request, one caller: the calls of perform_search follow one another
\* (the query is a default one, or one given a source, a filter and a sort)
Init ==
    /\ \/ QueryConstructed(<<{None}, {None}, {None}>>)
       \/ QueryConstructed(<<CtorSources \ {None}, CtorFilters \ {None, Val(<<>>)},
                             CtorSorts \ {None}>>)
    /\ RequestConstructed
    /\ CallsIdle
    /\ HandlesIdle

Step(t, kws) ==
    \/ \E kwargs \in kws : Call(t, kwargs)
    \/ L49(t)
    \/ L52(t)
    \/ L61Send(t)
    \/ \E result \in Responses : L61Return(t, result)
    \/ \E exc \in Failures : L61Raise(t, exc)
    \/ L64(t)

Next == Step(1, KwArgs) /\ UNCHANGED handleVars

Spec == Init /\ [][Next]_vars

\* one request, two callers whose perform_search calls interleave line by line;
\* no caller passes last_artifact_id
NextConc == (\E t \in Threads : Step(t, {EmptyDict})) /\ UNCHANGED handleVars

SpecConc == Init /\ [][NextConc]_vars

\* one request and the query it was built from: between the calls of
\* perform_search the caller goes on changing the query
QueryIdle == \A t \in Threads : pc[t] = "idle"

NextLive ==
    \/ Step(1, {EmptyDict}) /\ UNCHANGED handleVars
    \/ /\ QueryIdle
       /\ set_artifact_search_source(GovernArtifactSearchSourceArtifacts(Val(<<"art-41">>)))
       /\ UNCHANGED <<requestVars, callVars, handleVars>>
    \/ QueryIdle /\ clear_artifact_filters /\ UNCHANGED <<requestVars, callVars, handleVars>>
    \/ /\ QueryIdle
       /\ add_artifact_filter(GovernArchivedStatusArtifactFilter(FALSE))
       /\ UNCHANGED <<requestVars, callVars, handleVars>>
    \/ QueryIdle /\ clear_artifact_search_sort /\ UNCHANGED <<requestVars, callVars, handleVars>>
    \/ /\ QueryIdle
       /\ set_artifact_search_sort(Val(GovernArtifactSearchSortName([direction |-> "DESC"])))
       /\ UNCHANGED <<requestVars, callVars, handleVars>>

SpecLive == Init /\ [][NextLive]_vars

----------------------------------------------------------------------------
\* The builders alone: a query is given one source, one filter and one sort, each
\* made by its constructor from arguments drawn below, and is built

\* the dicts holding key, with a value among vals, or not holding it
Opt(key, vals) == {EmptyDict} \cup {(key :> v) : v \in vals}

SourceClasses ==
    {"GovernArtifactSearchSourceBlueprints", "GovernArtifactSearchSourceBlueprintVersions",
     "GovernArtifactSearchSourceArtifacts"}
\* the ids argument of a source: omitted (None), or a list
IdArgs == {None, Val(<<>>), Val(<<"id-1">>), Val(<<"id-1", "id-2">>)}
SourceArgs ==
    {[cls |-> "GovernArtifactSearchSourceAll"]}
    \cup {[cls |-> c, ids |-> ids] : c \in SourceClasses, ids \in IdArgs}

MakeSource(a) ==
    CASE a.cls = "GovernArtifactSearchSourceAll" -> GovernArtifactSearchSourceAll
      [] a.cls = "GovernArtifactSearchSourceBlueprints" ->
            GovernArtifactSearchSourceBlueprints(a.ids)
      [] a.cls = "GovernArtifactSearchSourceBlueprintVersions" ->
            GovernArtifactSearchSourceBlueprintVersions(a.ids)
      [] a.cls = "GovernArtifactSearchSourceArtifacts" ->
            GovernArtifactSearchSourceArtifacts(a.ids)

DirectionKw == Opt("direction", {"ASC", "DESC"})
FieldsKw ==
    Opt("fields", {None, Val(<<>>), Val(<<GovernSearchSortFieldBuilder("bp-1", "f-1")>>)})
SortArgs ==
    {[cls |-> c, kwargs |-> kw] :
        c \in {"GovernArtifactSearchSortName", "GovernArtifactSearchSortWorkflow"},
        kw \in DirectionKw}
    \cup {[cls |-> "GovernArtifactSearchSortField", kwargs |-> d @@ f] :
            d \in DirectionKw, f \in FieldsKw}

MakeSort(a) ==
    CASE a.cls = "GovernArtifactSearchSortName" -> GovernArtifactSearchSortName(a.kwargs)
      [] a.cls = "GovernArtifactSearchSortWorkflow" ->
            GovernArtifactSearchSortWorkflow(a.kwargs)
      [] a.cls = "GovernArtifactSearchSortField" -> GovernArtifactSearchSortField(a.kwargs)

FieldValueKw ==
    {c @@ f @@ n @@ cs :
        c \in Opt("condition", {None, Val("abc")}),
        f \in Opt("field_id", {Val("f-1")}),
        n \in Opt("negate_condition", {None, Val(FALSE), Val(TRUE)}),
        cs \in Opt("case_sensitive", {Val(FALSE), Val(TRUE)})}
FilterArgs ==
    {[cls |-> "GovernFieldValueArtifactFilter", condition_type |-> ct, kwargs |-> kw] :
        ct \in {"EQUALS", "CONTAINS"}, kw \in FieldValueKw}
    \cup {[cls |-> "GovernArchivedStatusArtifactFilter", is_archived |-> b] :
            b \in BOOLEAN}

MakeFilter(a) ==
    IF a.cls = "GovernFieldValueArtifactFilter"
    THEN GovernFieldValueArtifactFilter(a.condition_type, a.kwargs)
    ELSE GovernArchivedStatusArtifactFilter(a.is_archived)

\* ctor.made keeps the arguments the source, the filter and the sort were made from
InitBuild ==
    /\ \E sa \in SourceArgs, fa \in FilterArgs, so \in SortArgs :
            LET src == Val(MakeSource(sa))
                filters == Val(<<MakeFilter(fa)>>)
                sort == Val(MakeSort(so))
                q == QueryInit(src, filters, sort)
            IN  /\ artifact_search_source = q.artifact_search_source
                /\ artifact_filters_list = q.artifact_filters_list
                /\ artifact_search_sort = q.artifact_search_sort
                /\ ctor = [artifact_search_source |-> src,
                           artifact_filters_list |-> filters,
                           artifact_search_sort |-> sort,
                           made |-> [source |-> sa, filter |-> fa, sort |-> so]]
    /\ nmut = 0 /\ built = NotBuilt /\ qh = NoMutatorCalled
    /\ search_source = EmptyDict /\ query = EmptyDict /\ last_artifact_id = None
    /\ CallsIdle
    /\ HandlesIdle

NextBuild == build /\ UNCHANGED <<requestVars, callVars, handleVars>>

SpecBuild == InitBuild /\ [][NextBuild]_vars

----------------------------------------------------------------------------
\* The handles: an object holding its client and the ids of what it stands for;
\* each of its methods runs to its end in one step.  hobj is the handle, hlog the
\* transport calls of its last method call, in order, each with what the transport
\* answered, and hout how that method call ended.

MaxVersions == 3

\* the names an instance answers to: the attributes __init__ assigns and the
\* methods the class body defines
Attributes(class) ==
    CASE class = "GovernCustomPage" ->
            {"client", "custom_page_id", "__init__", "get_definition"}
      [] class = "GovernCustomPageDefinition" ->
            {"client", "custom_page_id", "definition", "__init__", "get_raw"}
      [] class = "DSSSavedModel" ->
            {"client", "project", "project_key", "sm_id", "__init__", "id",
             "get_settings", "list_versions", "get_active_version"}
      [] OTHER -> {}

GovernCustomPage(client, custom_page_id) ==
    [class |-> "GovernCustomPage",
     attrs |-> [client |-> client, custom_page_id |-> custom_page_id]]

GovernCustomPageDefinition(client, custom_page_id, definition) ==
    [class |-> "GovernCustomPageDefinition",
     attrs |-> [client |-> client, custom_page_id |-> custom_page_id,
                definition |-> definition]]

get_raw(self) == self.attrs.definition

DSSSavedModel(client, project_key, sm_id) ==
    [class |-> "DSSSavedModel",
     attrs |-> [client |-> client, project_key |-> project_key, sm_id |-> sm_id]]

\* the handles a behaviour may start with
CustomPages == {GovernCustomPage("govern-client", id) : id \in {"cp-1", "cp-2"}}
SavedModels == {DSSSavedModel("dss-client", "PROJ", id) : id \in {"sm-1", "sm-2"}}

\* what the transport answers: the decoded JSON, or an exception
Ok(json) == [ok |-> TRUE, json |-> Val(json), exc |-> None]
Err(exc) == [ok |-> FALSE, json |-> None, exc |-> Val(exc)]

\* how a method call of a handle ends (value is None when the method returns None)
HandleReturned(method, value) ==
    [method |-> method, kind |-> "return", value |-> value, exc |-> None]
HandleRaised(method, exc) ==
    [method |-> method, kind |-> "raise", value |-> None, exc |-> Val(exc)]

\* the versions the server may list: dicts with an id and the active flag
Versions == [id : {"v1", "v2"}, active : BOOLEAN]
Listings == UNION {[1..n -> Versions] : n \in 0..MaxVersions}

\* GovernCustomPage.get_definition: the lookup of self._perform_json comes first,
\* and the handle has no such attribute
get_definition ==
    /\ hobj # NoHandles
    /\ hobj.class = "GovernCustomPage"
    /\ "_perform_json" \notin Attributes(hobj.class)
    /\ hlog' = <<>>
    /\ hout' = HandleRaised("get_definition", "AttributeError")
    /\ UNCHANGED hobj

\* the request of DSSSavedModel.list_versions
list_versions(self) ==
    [client |-> self.attrs.client, method |-> "GET",
     path |-> <<"projects", self.attrs.project_key, "savedmodels", self.attrs.sm_id,
                "versions">>]

\* (variant: the last active version is taken)
ActiveVersionLast(versions) ==
    LET IsActive(x) == x.active
        filtered == SelectSeq(versions, IsActive)
    IN  IF Len(filtered) = 0 THEN None ELSE Val(filtered[Len(filtered)])

\* lines 59-63 of get_active_version, given what list_versions returned
ActiveVersion(versions) ==
    LET IsActive(x) == x.active
        filtered == SelectSeq(versions, IsActive)
    IN  IF Len(filtered) = 0 THEN None ELSE Val(filtered[1])

\* DSSSavedModel.get_active_version: an exception of list_versions goes through
get_active_version ==
    /\ hobj # NoHandles
    /\ hobj.class = "DSSSavedModel"
    /\ \E reply \in {Ok(v) : v \in Listings} \cup {Err(e) : e \in Failures} :
            /\ hlog' = <<[request |-> list_versions(hobj), reply |-> reply]>>
            /\ hout' = IF reply.ok
                       THEN HandleReturned("get_active_version",
                                           ActiveVersion(reply.json[1]))
                       ELSE HandleRaised("get_active_version", reply.exc[1])
    /\ UNCHANGED hobj

\* ---- DSSJupyterNotebook

MaxSessions == 2

DSSJupyterNotebook(client, project_key, notebook_name) ==
    [class |-> "DSSJupyterNotebook",
     attrs |-> [client |-> client, project_key |-> project_key,
                notebook_name |-> notebook_name]]

Notebooks == {DSSJupyterNotebook("dss-client", "PROJ", "nb-1")}

\* "%s" % v
Str(v) == IF v = None THEN "None" ELSE v[1]

\* how a method call ends, with the arguments it was given
WithArgs(out, args) == [args |-> args] @@ out

\* the sessions the server may list: dicts that may lack sessionId
Sessions == {[sessionId |-> Val("sess-1")], [sessionId |-> Val("sess-2")],
             [kernelId |-> Val("k-1")]}
\* the decoded JSON of the sessions listing: null or a list
SessionListings == {None} \cup {Val(l) : l \in UNION {[1..n -> Sessions] : n \in 0..MaxSessions}}
\* the session_id argument of unload
SessionIdArgs == {None, Val("sess-2"), Val("sess-9")}

NotRunning == "Notebook isn't running"
SeveralSessions == "Several sessions of the notebook are running, choose one"

\* the request of DSSJupyterNotebook.get_sessions
get_sessions(self) ==
    [client |-> self.attrs.client, method |-> "GET",
     path |-> <<"projects", self.attrs.project_key, "jupyter-notebooks",
                self.attrs.notebook_name, "sessions">>]

\* the request of lines 26-27
DeleteSession(self, session_id) ==
    [client |-> self.attrs.client, method |-> "DELETE",
     path |-> <<"projects", self.attrs.project_key, "jupyter-notebooks",
                self.attrs.notebook_name, "sessions", Str(session_id)>>]

\* (variant: a session_id given is deleted without looking at the listing)
UnloadDecisionGivenIdSkipsChecks(sessions, session_id) ==
    IF session_id # None THEN [raise |-> None, session_id |-> session_id]
    ELSE IF sessions = None THEN [raise |-> Val(NotRunning), session_id |-> None]
    ELSE IF Len(sessions[1]) = 0 THEN [raise |-> Val(NotRunning), session_id |-> None]
    ELSE IF Len(sessions[1]) > 1
         THEN [raise |-> Val(SeveralSessions), session_id |-> None]
         ELSE [raise |-> None, session_id |-> DictGet(sessions[1][1], "sessionId")]

\* (variant: of several sessions the first is taken)
UnloadDecisionTakesFirst(sessions, session_id) ==
    IF sessions = None THEN [raise |-> Val(NotRunning), session_id |-> None]
    ELSE IF Len(sessions[1]) = 0 THEN [raise |-> Val(NotRunning), session_id |-> None]
    ELSE IF session_id = None
         THEN [raise |-> None, session_id |-> DictGet(sessions[1][1], "sessionId")]
         ELSE [raise |-> None, session_id |-> session_id]

\* (variant: a session_id given must be that of a listed session)
UnloadDecisionChecksListed(sessions, session_id) ==
    IF sessions = None THEN [raise |-> Val(NotRunning), session_id |-> None]
    ELSE IF Len(sessions[1]) = 0 THEN [raise |-> Val(NotRunning), session_id |-> None]
    ELSE IF session_id = None
         THEN IF Len(sessions[1]) > 1
              THEN [raise |-> Val(SeveralSessions), session_id |-> None]
              ELSE [raise |-> None, session_id |-> DictGet(sessions[1][1], "sessionId")]
         ELSE IF \E i \in 1..Len(sessions[1]) :
                    DictGet(sessions[1][i], "sessionId") = session_id
              THEN [raise |-> None, session_id |-> session_id]
              ELSE [raise |-> Val(NotRunning), session_id |-> None]

\* lines 17-25 of unload, given what get_sessions returned: the exception raised,
\* or else the session_id the DELETE is made with
UnloadDecision(sessions, session_id) ==
    IF sessions = None THEN [raise |-> Val(NotRunning), session_id |-> None]
    ELSE IF Len(sessions[1]) = 0 THEN [raise |-> Val(NotRunning), session_id |-> None]
    ELSE IF session_id = None
         THEN IF Len(sessions[1]) > 1
              THEN [raise |-> Val(SeveralSessions), session_id |-> None]
              ELSE [raise |-> None, session_id |-> DictGet(sessions[1][1], "sessionId")]
         ELSE [raise |-> None, session_id |-> session_id]

\* DSSJupyterNotebook.unload(session_id): an exception of either transport call
\* goes through; the result of the DELETE is returned
unload ==
    /\ hobj # NoHandles
    /\ hobj.class = "DSSJupyterNotebook"
    /\ \E session_id \in SessionIdArgs,
          got \in {Ok(l) : l \in SessionListings} \cup {Err(e) : e \in Failures},
          deleted \in {Ok(EmptyDict)} \cup {Err(e) : e \in Failures} :
            LET listing == [request |-> get_sessions(hobj), reply |-> got]
                d == UnloadDecision(got.json[1], session_id)
                delete == [request |-> DeleteSession(hobj, d.session_id),
                           reply |-> deleted]
                Out(o) == WithArgs(o, [session_id |-> session_id])
            IN  IF ~got.ok
                THEN /\ hlog' = <<listing>>
                     /\ hout' = Out(HandleRaised("unload", got.exc[1]))
                ELSE IF d.raise # None
                THEN /\ hlog' = <<listing>>
                     /\ hout' = Out(HandleRaised("unload", d.raise[1]))
                ELSE /\ hlog' = <<listing, delete>>
                     /\ hout' = Out(IF deleted.ok
                                    THEN HandleReturned("unload", deleted.json)
                                    ELSE HandleRaised("unload", deleted.exc[1]))
    /\ UNCHANGED hobj

\* ---- FMClient

ValueError(message) == [type |-> "ValueError", message |-> message]
CloudError == ValueError("cloud should be either \"AWS\" or \"Azure\"")
ApiKeyError == ValueError("API Key ID and API Key secret are required")

\* the arguments of FMClient(...): api_key_id, api_key_secret and cloud may be None
FMClientArgs ==
    [host : {"https://fm.example"},
     api_key_id : {None, Val("key-id")},
     api_key_secret : {None, Val("key-secret")},
     cloud : {None, Val("AWS"), Val("Azure"), Val("GCP"), Val("aws")}]

\* (variant: the API key is checked before the cloud)
FMClientNewKeysFirst(a) ==
    IF a.api_key_id = None \/ a.api_key_secret = None
    THEN [raise |-> Val(ApiKeyError), self |-> None]
    ELSE IF a.cloud \notin {Val("AWS"), Val("Azure")}
    THEN [raise |-> Val(CloudError), self |-> None]
    ELSE [raise |-> None,
          self |-> Val([class |-> "FMClient",
                        attrs |-> [host |-> a.host, api_key_id |-> a.api_key_id,
                                   api_key_secret |-> a.api_key_secret,
                                   cloud |-> a.cloud[1], tenant_id |-> "main",
                                   auth |-> <<a.api_key_id[1], a.api_key_secret[1]>>]])]

\* FMClient.__init__ with tenant_id and extra_headers left to their defaults: the
\* exception raised, or else the client
FMClientNew(a) ==
    IF a.cloud \notin {Val("AWS"), Val("Azure")}
    THEN [raise |-> Val(CloudError), self |-> None]
    ELSE IF a.api_key_id # None /\ a.api_key_secret # None
    THEN [raise |-> None,
          self |-> Val([class |-> "FMClient",
                        attrs |-> [host |-> a.host, api_key_id |-> a.api_key_id,
                                   api_key_secret |-> a.api_key_secret,
                                   cloud |-> a.cloud[1], tenant_id |-> "main",
                                   auth |-> <<a.api_key_id[1], a.api_key_secret[1]>>]])]
    ELSE [raise |-> Val(ApiKeyError), self |-> None]

\* the construction of a client where there is none
FMClientInit ==
    /\ hobj = NoHandles
    /\ \E a \in FMClientArgs :
            LET r == FMClientNew(a)
            IN  /\ hobj' = IF r.raise = None THEN r.self[1] ELSE NoHandles
                /\ hout' = WithArgs(IF r.raise = None
                                    THEN HandleReturned("__init__", r.self)
                                    ELSE HandleRaised("__init__", r.raise[1]), a)
    /\ hlog' = <<>>

\* the creator classes by cloud
VirtualNetworkCreators ==
    [AWS |-> "FMAWSVirtualNetworkCreator", Azure |-> "FMAzureVirtualNetworkCreator"]
InstanceSettingsTemplateCreators ==
    [AWS |-> "FMAWSInstanceSettingsTemplateCreator",
     Azure |-> "FMAzureInstanceSettingsTemplateCreator"]
InstanceCreators ==
    [AWS |-> "FMAWSInstanceCreator", Azure |-> "FMAzureInstanceCreator"]

\* if self.cloud == "AWS": return <AWS creator> elif self.cloud == "Azure":
\* return <Azure creator>, and None when the end of the method is reached
CloudCreator(self, classes, args) ==
    IF self.attrs.cloud = "AWS"
    THEN Val([class |-> classes.AWS, client |-> self, args |-> args])
    ELSE IF self.attrs.cloud = "Azure"
    THEN Val([class |-> classes.Azure, client |-> self, args |-> args])
    ELSE None

Labels == {"label-1", "label-2"}

new_virtual_network_creator ==
    /\ hobj # NoHandles
    /\ hobj.class = "FMClient"
    /\ \E label \in Labels :
            hout' = WithArgs(HandleReturned("new_virtual_network_creator",
                        CloudCreator(hobj, VirtualNetworkCreators, <<label>>)),
                        <<label>>)
    /\ hlog' = <<>>
    /\ UNCHANGED hobj

new_instance_template_creator ==
    /\ hobj # NoHandles
    /\ hobj.class = "FMClient"
    /\ \E label \in Labels :
            hout' = WithArgs(HandleReturned("new_instance_template_creator",
                        CloudCreator(hobj, InstanceSettingsTemplateCreators, <<label>>)),
                        <<label>>)
    /\ hlog' = <<>>
    /\ UNCHANGED hobj

new_instance_creator ==
    /\ hobj # NoHandles
    /\ hobj.class = "FMClient"
    /\ \E label \in Labels :
            LET args == <<label, "ist-1", "vn-1", "dss-9.0.3-default">>
            IN  hout' = WithArgs(HandleReturned("new_instance_creator",
                            CloudCreator(hobj, InstanceCreators, args)), args)
    /\ hlog' = <<>>
    /\ UNCHANGED hobj

\* json.dumps(v) of a dict with the one key label: its text
Dumps(v) == "{\"label\": \"" \o v.label \o "\"}"

\* the bodies _perform_http may be given
HttpBodies == {None, Val([label |-> "instance-1"])}
RawBodies == {None, Val("raw-bytes")}

\* what the session answers: a response with its status, its text and, when the
\* text is JSON, what json() decodes it to
ErrorBodies ==
    {[errorType |-> Val("NotFoundException"), message |-> Val("no such instance")],
     [errorType |-> Val("NotFoundException")],
     [message |-> Val("no such instance")],
     [errorType |-> Val("NotFoundException"), message |-> None],
     EmptyDict}
HttpResponses ==
    {[status |-> st, text |-> "{...}", decoded |-> Val(ex)] :
        st \in {200, 404, 500}, ex \in ErrorBodies}
    \cup {[status |-> st, text |-> "<html>Bad Gateway</html>", decoded |-> None] :
            st \in {200, 502}}
\* or an exception of the network
NetworkErrors ==
    {[type |-> "ConnectionError", message |-> "connection refused"],
     [type |-> "Timeout", message |-> "read timed out"]}
HttpReply(response) == [ok |-> TRUE, response |-> Val(response), exc |-> None]
NetworkError(exc) == [ok |-> FALSE, response |-> None, exc |-> Val(exc)]

\* http_res.raise_for_status() raises HTTPError
IsHttpError(response) == response.status >= 400 /\ response.status < 600

DataikuException(message) == [type |-> "DataikuException", message |-> message]

\* (variant: body wins over raw_body)
SentDataBodyWins(body, raw_body) ==
    IF body # None THEN Val(Dumps(body[1])) ELSE raw_body

\* lines 188-191: the data handed to the session
SentData(body, raw_body) ==
    LET dumped == IF body # None THEN Val(Dumps(body[1])) ELSE body
    IN  IF raw_body # None THEN raw_body ELSE dumped

\* lines 201-205: the exception made of the response of a failed status
HttpFailure(response) ==
    LET ex == IF response.decoded # None THEN response.decoded[1]
              ELSE [message |-> Val(response.text)]
        errorType == IF "errorType" \in DOMAIN ex THEN ex.errorType
                     ELSE Val("Unknown error")
        message == IF "message" \in DOMAIN ex THEN ex.message ELSE Val("No message")
    IN  DataikuException(Str(errorType) \o ": " \o Str(message))

\* FMClient._perform_http(method, path, body=, raw_body=), the other parameters
\* left to their defaults
_perform_http ==
    /\ hobj # NoHandles
    /\ hobj.class = "FMClient"
    /\ \E method \in {"GET", "POST"}, body \in HttpBodies, raw_body \in RawBodies,
          reply \in {HttpReply(r) : r \in HttpResponses}
                    \cup {NetworkError(e) : e \in NetworkErrors} :
            LET path == "/tenants/main/instances"
                args == [method |-> method, path |-> path, body |-> body,
                         raw_body |-> raw_body]
                request == [auth |-> hobj.attrs.auth, method |-> method,
                            url |-> hobj.attrs.host \o "/api/public" \o path,
                            params |-> None, data |-> SentData(body, raw_body),
                            files |-> None, stream |-> FALSE]
            IN  /\ hlog' = <<[request |-> request, reply |-> reply]>>
                /\ hout' = WithArgs(
                        IF ~reply.ok
                        THEN HandleRaised("_perform_http", reply.exc[1])
                        ELSE IF IsHttpError(reply.response[1])
                        THEN HandleRaised("_perform_http",
                                          HttpFailure(reply.response[1]))
                        ELSE HandleReturned("_perform_http", reply.response),
                        args)
    /\ UNCHANGED hobj

\* ---- MLFlowVersionHandler

MLFlowVersionHandler(saved_model, version_id) ==
    [class |-> "MLFlowVersionHandler",
     attrs |-> [saved_model |-> saved_model, version_id |-> version_id]]

VersionHandlers ==
    {MLFlowVersionHandler(DSSSavedModel("dss-client", "PROJ", "sm-1"), "v1")}

\* the metadata the server may hold
FetchedMetadata ==
    {EmptyDict,
     [targetColumnName |-> Val("old-target"),
      classLabels |-> Val(<<[label |-> "x"]>>),
      predictionType |-> Val("BINARY_CLASSIFICATION")],
     [gatherFeaturesFromDataset |-> Val("old-dataset"),
      featuresList |-> Val(<<[name |-> "f0", type |-> "string"]>>)]}

\* the arguments of set_core_metadata (output_style is not read)
CoreMetadataArgs ==
    [target_column_name : {None, Val("target")},
     class_labels : {None, Val(<<>>), Val(<<"a", "b">>)},
     get_features_from_dataset : {None, Val("dataset")},
     features_list : {None, Val(<<[name |-> "f1", type |-> "double"]>>)}]

\* the path of lines 258 and 276
MetadataPath(self) ==
    <<"projects", self.attrs.saved_model.attrs.project_key, "savedmodels",
      self.attrs.saved_model.attrs.sm_id, "versions", self.attrs.version_id,
      "external-ml", "metadata">>

\* [{"label": l} for l in class_labels]
LabelDicts(class_labels) ==
    [i \in 1..Len(class_labels) |-> [label |-> class_labels[i]]]

\* (variant: the target column is written even when None)
CoreMetadataTargetAlways(metadata, a) ==
    LET m1 == ("targetColumnName" :> a.target_column_name) @@ metadata
        m2 == IF a.class_labels # None
              THEN ("classLabels" :> Val(LabelDicts(a.class_labels[1]))) @@ m1
              ELSE m1
    IN  IF a.get_features_from_dataset # None
        THEN ("gatherFeaturesFromDataset" :> a.get_features_from_dataset) @@ m2
        ELSE m2

\* lines 260-267: the metadata after the three assignments
CoreMetadata(metadata, a) ==
    LET m1 == IF a.target_column_name # None
              THEN ("targetColumnName" :> a.target_column_name) @@ metadata
              ELSE metadata
        m2 == IF a.class_labels # None
              THEN ("classLabels" :> Val(LabelDicts(a.class_labels[1]))) @@ m1
              ELSE m1
    IN  IF a.get_features_from_dataset # None
        THEN ("gatherFeaturesFromDataset" :> a.get_features_from_dataset) @@ m2
        ELSE m2

\* MLFlowVersionHandler.set_core_metadata: an exception of either transport call
\* goes through; nothing is returned
set_core_metadata ==
    /\ hobj # NoHandles
    /\ hobj.class = "MLFlowVersionHandler"
    /\ \E a \in CoreMetadataArgs,
          got \in {Ok(m) : m \in FetchedMetadata} \cup {Err(e) : e \in Failures},
          put \in {Ok(None)} \cup {Err(e) : e \in Failures} :
            LET client == hobj.attrs.saved_model.attrs.client
                fetch == [request |-> [client |-> client, method |-> "GET",
                                       path |-> MetadataPath(hobj)],
                          reply |-> got]
                store == [request |-> [client |-> client, method |-> "PUT",
                                       path |-> MetadataPath(hobj),
                                       body |-> CoreMetadata(got.json[1], a)],
                          reply |-> put]
            IN  IF ~got.ok
                THEN /\ hlog' = <<fetch>>
                     /\ hout' = WithArgs(HandleRaised("set_core_metadata", got.exc[1]), a)
                ELSE /\ hlog' = <<fetch, store>>
                     /\ hout' = WithArgs(IF put.ok
                                         THEN HandleReturned("set_core_metadata", None)
                                         ELSE HandleRaised("set_core_metadata",
                                                           put.exc[1]), a)
    /\ UNCHANGED hobj

InitHandles ==
    /\ QueryConstructed(<<{None}, {None}, {None}>>)
    /\ search_source = EmptyDict /\ query = EmptyDict /\ last_artifact_id = None
    /\ CallsIdle
    /\ hobj \in CustomPages \cup SavedModels \cup Notebooks \cup VersionHandlers
                \cup {NoHandles}
    /\ hlog = <<>>
    /\ hout = NoCall

NextHandles ==
    \/ get_definition /\ UNCHANGED <<queryVars, requestVars, callVars>>
    \/ get_active_version /\ UNCHANGED <<queryVars, requestVars, callVars>>
    \/ unload /\ UNCHANGED <<queryVars, requestVars, callVars>>
    \/ FMClientInit /\ UNCHANGED <<queryVars, requestVars, callVars>>
    \/ new_virtual_network_creator /\ UNCHANGED <<queryVars, requestVars, callVars>>
    \/ new_instance_template_creator /\ UNCHANGED <<queryVars, requestVars, callVars>>
    \/ new_instance_creator /\ UNCHANGED <<queryVars, requestVars, callVars>>
    \/ _perform_http /\ UNCHANGED <<queryVars, requestVars, callVars>>
    \/ set_core_metadata /\ UNCHANGED <<queryVars, requestVars, callVars>>

SpecHandles == InitHandles /\ [][NextHandles]_vars

----------------------------------------------------------------------------
\* Properties of perform_search, one caller (Spec)

\* the caller of Spec
Caller == CHOOSE t \in Threads : \A u \in Threads : t <= u
\* the cursor carried by the request on the wire
SentCursor == wire.last[1].body.artifactSearchPagination.lastArtifactId
\* perform_search has sent its request and waits for the transport
InFlight == pc[Caller] = "wait"
\* a perform_search has ended and the next has not begun
Ended == pc[Caller] = "idle" /\ outcome[Caller] # NoCall
Returned == Ended /\ outcome[Caller].kind = "return"
Raised == Ended /\ outcome[Caller].kind = "raise"

\* C1: while no call has passed a last_artifact_id and every call has succeeded,
\* the first request carries lastArtifactId = null and each later request carries
\* the lastArtifactId of the response before it.
C1_CursorFollowsResponses ==
    (InFlight /\ hist.plain) =>
        SentCursor = IF hist.calls = 1 THEN None ELSE hist.lastResp

C1_Witness ==
    /\ InFlight /\ hist.plain /\ hist.calls = 3
    /\ hist.lastResp = Val("art-42")
    /\ SentCursor = Val("art-42")

\* C2: a call given a non-None last_artifact_id sends it as lastArtifactId whatever
\* the stored cursor was, and once the call has returned the stored cursor is the
\* lastArtifactId of its response.
C2_ExplicitCursorSentThenReplaced ==
    /\ (InFlight /\ frame[Caller].last_artifact_id # None) =>
            SentCursor = frame[Caller].last_artifact_id
    /\ (Returned /\ Param(outcome[Caller].kwargs, "last_artifact_id", None) # None) =>
            last_artifact_id = DictGet(outcome[Caller].value, "lastArtifactId")

C2_Witness ==
    /\ Returned
    /\ outcome[Caller].kwargs = [last_artifact_id |-> Val("cli-7")]
    /\ outcome[Caller].pre = Val("art-41")
    /\ outcome[Caller].body.artifactSearchPagination.lastArtifactId = Val("cli-7")
    /\ last_artifact_id = Val("art-42")

\* C3: once a call has returned a response whose lastArtifactId is absent or null,
\* the stored cursor is None, whatever it was before the call.
C3_NullResponseResetsCursor ==
    (Returned /\ DictGet(outcome[Caller].value, "lastArtifactId") = None) =>
        last_artifact_id = None

C3_Witness ==
    /\ Returned
    /\ outcome[Caller].pre = Val("art-42")
    /\ "lastArtifactId" \notin DOMAIN outcome[Caller].value
    /\ last_artifact_id = None

\* C4: a call whose transport call failed leaves the stored cursor as it was
\* before the call, with or without an explicit last_artifact_id.
C4_FailedCallKeepsCursor ==
    Raised => last_artifact_id = outcome[Caller].pre

\* C5: between calls the stored cursor is None or an id that an earlier response
\* returned as lastArtifactId.
C5_CursorFromServerOnly ==
    pc[Caller] = "idle" =>
        \/ last_artifact_id = None
        \/ last_artifact_id[1] \in hist.returned

\* C6: the call after a failed call, given the same arguments, sends the body the
\* failed call sent.
C6_RetrySendsSameBody ==
    (InFlight /\ outcome[Caller] # NoCall /\ outcome[Caller].kind = "raise"
        /\ outcome[Caller].kwargs = frame[Caller].kwargs) =>
        wire.last[1].body = outcome[Caller].body

C6_Witness ==
    /\ InFlight /\ outcome[Caller] # NoCall /\ outcome[Caller].kind = "raise"
    /\ outcome[Caller].kwargs = frame[Caller].kwargs
    /\ frame[Caller].kwargs = [page_size |-> 5]
    /\ outcome[Caller].pre = Val("art-41")
    /\ SentCursor = Val("art-41")

\* C7: every call makes exactly one transport call, a POST to /artifacts/search;
\* a call whose transport call failed ends by raising what the transport raised,
\* returns nothing and makes no further transport call.
C7_OneTransportCallPerInvocation ==
    /\ wire.n = hist.calls - (IF pc[Caller] \in {"L49", "L52", "L61"} THEN 1 ELSE 0)
    /\ wire.n > 0 => wire.last[1].method = "POST" /\ wire.last[1].path = "/artifacts/search"
    /\ Ended => outcome[Caller].ntransport = 1
    /\ Raised => outcome[Caller].value = hist.lastExc[1]

C7_Witness ==
    /\ Raised /\ hist.calls = 2 /\ wire.n = 2
    /\ outcome[Caller].value = "ConnectionError"

\* C9: the body sent has exactly the keys searchSource, query and
\* artifactSearchPagination; the pagination has exactly pageSize, the page_size
\* argument or 20 when omitted, and lastArtifactId, the explicit last_artifact_id
\* when one is given and else the cursor stored when the call began.
C9_BodyShape ==
    InFlight =>
        LET body == wire.last[1].body
            kwargs == frame[Caller].kwargs
        IN  /\ DOMAIN body = {"searchSource", "query", "artifactSearchPagination"}
            /\ body.searchSource = search_source
            /\ body.query = query
            /\ DOMAIN body.artifactSearchPagination = {"pageSize", "lastArtifactId"}
            /\ body.artifactSearchPagination.pageSize =
                    IF "page_size" \in DOMAIN kwargs THEN kwargs.page_size ELSE 20
            /\ body.artifactSearchPagination.lastArtifactId =
                    IF "last_artifact_id" \in DOMAIN kwargs /\ kwargs.last_artifact_id # None
                    THEN kwargs.last_artifact_id
                    ELSE frame[Caller].pre

C9_Witness ==
    /\ InFlight
    /\ frame[Caller].kwargs = EmptyDict
    /\ frame[Caller].pre = Val("art-42")
    /\ wire.last[1].body.artifactSearchPagination =
            [pageSize |-> 20, lastArtifactId |-> Val("art-42")]

----------------------------------------------------------------------------
\* Properties of perform_search, two callers (SpecConc)

\* C8: two successful calls send the cursor read from the same write of it (a page
\* is fetched twice), or a cursor the server returned is overwritten before any
\* request has read it (a page is skipped), only when a call began while another
\* was in progress; interleaved calls do reach both outcomes.
C8_RaceOnlyWhenCallsOverlap ==
    (hist.dup \/ hist.lost) => hist.overlap

C8_Witness ==
    /\ hist.overlap /\ hist.dup /\ hist.lost
    /\ \A t \in Threads : pc[t] = "idle" /\ outcome[t] # NoCall /\ outcome[t].kind = "return"

\* the call before the one running returned a response without a lastArtifactId
AfterLastPage ==
    /\ InFlight
    /\ outcome[Caller] # NoCall
    /\ outcome[Caller].kind = "return"
    /\ DictGet(outcome[Caller].value, "lastArtifactId") = None

\* C28: perform_search never stops fetching: the call that follows a response whose
\* lastArtifactId is absent or null, given no last_artifact_id, sends its one
\* request with lastArtifactId = null, the request of the first page.
C28_FirstPageAgainAfterLastPage ==
    (AfterLastPage /\ frame[Caller].last_artifact_id = None) =>
        /\ frame[Caller].ntransport = 1
        /\ wire.last # None
        /\ wire.last[1].method = "POST"
        /\ wire.last[1].path = "/artifacts/search"
        /\ wire.last[1].body = frame[Caller].body
        /\ SentCursor = None

C28_Witness ==
    /\ AfterLastPage
    /\ frame[Caller].last_artifact_id = None
    /\ outcome[Caller].pre = Val("art-41")
    /\ hist.calls = 3
    /\ SentCursor = None

\* C29: perform_search given last_artifact_id = None does what it does when the
\* argument is omitted: it sends the stored cursor.  Hence a call entered with a
\* non-null stored cursor never sends lastArtifactId = null, and a non-null stored
\* cursor becomes null only at line 64, from a response whose lastArtifactId is
\* absent or null.
C29_NoneIsOmitted ==
    /\ []((InFlight /\ frame[Caller].last_artifact_id = None) =>
            /\ SentCursor = frame[Caller].pre
            /\ frame[Caller].body =
                    RequestBody(search_source, query, frame[Caller].page_size,
                                frame[Caller].pre))
    /\ []((InFlight /\ frame[Caller].pre # None) => SentCursor # None)
    /\ [][(last_artifact_id # None /\ last_artifact_id' = None) =>
            /\ pc[Caller] = "L64"
            /\ DictGet(frame[Caller].result, "lastArtifactId") = None]_vars

C29_Witness ==
    /\ InFlight
    /\ "last_artifact_id" \in DOMAIN frame[Caller].kwargs
    /\ frame[Caller].kwargs.last_artifact_id = None
    /\ frame[Caller].pre = Val("art-41")
    /\ SentCursor = Val("art-41")

----------------------------------------------------------------------------
\* Properties of the query builder (SpecQuery)

\* the query was constructed without arguments and no mutator has run
Untouched ==
    /\ ctor = [artifact_search_source |-> None, artifact_filters_list |-> None,
               artifact_search_sort |-> None]
    /\ nmut = 0

\* C10: a query constructed with no source, no filters and no sort, on which no
\* mutator has been called, builds to ({"type": "all"}, {"artifactFilters": []}),
\* and the query payload has no artifactSearchSort key.
C10_DefaultQueryBuild ==
    (Untouched /\ built # NotBuilt) =>
        /\ built[1] = <<[type |-> "all"], [artifactFilters |-> <<>>]>>
        /\ "artifactSearchSort" \notin DOMAIN built[1][2]

C10_Witness == Untouched /\ built # NotBuilt

\* the artifactFilters of the build() result held
BuiltFilters == built[1][2].artifactFilters
\* the filters the query held before the first add_artifact_filter counted in
\* qh.added: the constructor's, or none after a clear_artifact_filters
FiltersBefore ==
    IF qh.cleared \/ ctor.artifact_filters_list = None
    THEN <<>>
    ELSE ctor.artifact_filters_list[1]

\* C11: build() lists one payload per add_artifact_filter call made since the
\* construction or the last clear_artifact_filters, after those of the filters the
\* query held before, in the order of the calls, duplicates included.
C11_FiltersInInsertionOrder ==
    built # NotBuilt =>
        /\ Len(BuiltFilters) = Len(FiltersBefore) + Len(qh.added)
        /\ \A i \in 1..Len(qh.added) :
                BuiltFilters[Len(FiltersBefore) + i] = FilterBuild(qh.added[i])

C11_Witness ==
    /\ built # NotBuilt
    /\ qh.added = <<GovernFieldValueArtifactFilter("EQUALS", EmptyDict),
                    GovernArchivedStatusArtifactFilter(FALSE)>>
    /\ BuiltFilters = <<[type |-> "field", conditionType |-> "EQUALS"],
                        [type |-> "archived", isArchived |-> FALSE]>>

\* C12: once clear_artifact_filters has been called, build() lists exactly the
\* payloads of the filters added since the last clear, none when none was added,
\* whatever filters the constructor was given or were added before.
C12_ClearDropsEarlierFilters ==
    (built # NotBuilt /\ qh.cleared) =>
        BuiltFilters = [i \in 1..Len(qh.added) |-> FilterBuild(qh.added[i])]

C12_Witness ==
    /\ built # NotBuilt /\ qh.cleared
    /\ ctor.artifact_filters_list = Val(<<GovernArchivedStatusArtifactFilter(TRUE)>>)
    /\ qh.added = <<>>
    /\ BuiltFilters = <<>>

\* the query payload of the build() result held
BuiltQuery == built[1][2]

\* the constructor was given no argument
DefaultConstructed ==
    ctor = [artifact_search_source |-> None, artifact_filters_list |-> None,
            artifact_search_sort |-> None]

\* C14: build() returns the pair of the source's build() and a query payload whose
\* artifactFilters are the filters' build() in list order and which has
\* artifactSearchSort, the sort's build(), exactly when a sort is set, and no other
\* key; a default query given add_artifact_filter(archived False) and
\* set_artifact_search_sort(name "DESC") builds to ({type: all}, {artifactFilters:
\* [{type: archived, isArchived: false}], artifactSearchSort: {direction: DESC,
\* column: {type: name}}}).
C14_BuildPair ==
    built # NotBuilt =>
        /\ Len(built[1]) = 2
        /\ built[1][1] = SourceBuild(artifact_search_source)
        /\ BuiltFilters = [i \in 1..Len(artifact_filters_list) |->
                                FilterBuild(artifact_filters_list[i])]
        /\ DOMAIN BuiltQuery =
                {"artifactFilters"} \cup
                (IF artifact_search_sort # None THEN {"artifactSearchSort"} ELSE {})
        /\ artifact_search_sort # None =>
                BuiltQuery.artifactSearchSort = SortBuild(artifact_search_sort[1])
        /\ (/\ DefaultConstructed
            /\ qh = [added |-> <<GovernArchivedStatusArtifactFilter(FALSE)>>,
                     cleared |-> FALSE,
                     sort_call |-> Val([op |-> "set",
                        arg |-> Val(GovernArtifactSearchSortName([direction |-> "DESC"]))]),
                     source_call |-> None]) =>
                built[1] =
                    <<[type |-> "all"],
                      [artifactFilters |-> <<[type |-> "archived", isArchived |-> FALSE]>>,
                       artifactSearchSort |->
                            [direction |-> "DESC", column |-> [type |-> "name"]]]>>

C14_Witness ==
    /\ built # NotBuilt
    /\ DefaultConstructed
    /\ nmut = 2
    /\ qh.added = <<GovernArchivedStatusArtifactFilter(FALSE)>>
    /\ qh.sort_call # None
    /\ qh.sort_call[1].arg = Val(GovernArtifactSearchSortName([direction |-> "DESC"]))
    /\ BuiltQuery.artifactSearchSort.direction = "DESC"

\* the sort and the source in effect: those of the last call that set or cleared
\* them, or else the constructor's
SortInEffect ==
    IF qh.sort_call = None THEN ctor.artifact_search_sort
    ELSE IF qh.sort_call[1].op = "set" THEN qh.sort_call[1].arg
    ELSE None
SourceInEffect ==
    IF qh.source_call # None THEN qh.source_call[1]
    ELSE IF ctor.artifact_search_source # None THEN ctor.artifact_search_source[1]
    ELSE GovernArtifactSearchSourceAll

\* C15: build() has artifactSearchSort exactly when the last of the
\* set_artifact_search_sort and clear_artifact_search_sort calls was a set with a
\* non-None sort, or there was none and the constructor was given a sort; its value
\* is the payload of that sort.  The source payload is that of the last
\* set_artifact_search_source call, or else of the constructor's source.
C15_LastSortAndSourceWin ==
    built # NotBuilt =>
        /\ "artifactSearchSort" \in DOMAIN BuiltQuery <=> SortInEffect # None
        /\ SortInEffect # None => BuiltQuery.artifactSearchSort = SortBuild(SortInEffect[1])
        /\ built[1][1] = SourceBuild(SourceInEffect)

C15_Witness ==
    /\ built # NotBuilt
    /\ ctor.artifact_search_sort = Val(GovernArtifactSearchSortWorkflow([direction |-> "DESC"]))
    /\ nmut = 3
    /\ qh.source_call = Val(GovernArtifactSearchSourceArtifacts(Val(<<"art-41">>)))
    /\ qh.sort_call = Val([op |-> "set", arg |-> Val(GovernArtifactSearchSortName(EmptyDict))])
    /\ BuiltQuery.artifactSearchSort = [direction |-> "ASC", column |-> [type |-> "name"]]
    /\ built[1][1] = [type |-> "artifacts", artifactIds |-> Val(<<"art-41">>)]

\* C16: set_artifact_search_source leaves the filters and the sort as they are,
\* add_artifact_filter and clear_artifact_filters the source and the sort,
\* set_artifact_search_sort and clear_artifact_search_sort the source and the
\* filters; none of them touches the request or the transport.
C16_MutatorsChangeOwnPartOnly ==
    [][/\ (\E src \in SourceInputs : set_artifact_search_source(src)) =>
            UNCHANGED <<artifact_filters_list, artifact_search_sort>>
       /\ ((\E f \in FilterInputs : add_artifact_filter(f)) \/ clear_artifact_filters) =>
            UNCHANGED <<artifact_search_source, artifact_search_sort>>
       /\ ((\E sort \in {None} \cup {Val(x) : x \in SortInputs} :
                set_artifact_search_sort(sort)) \/ clear_artifact_search_sort) =>
            UNCHANGED <<artifact_search_source, artifact_filters_list>>
       /\ nmut' # nmut => UNCHANGED <<requestVars, wire>>]_vars

C16_Witness ==
    /\ nmut = 3
    /\ qh.source_call # None /\ qh.added # <<>> /\ qh.sort_call # None
    /\ artifact_filters_list # <<>>
    /\ wire.n = 0

----------------------------------------------------------------------------
\* Properties of the builders (SpecBuild)

\* the arguments the filter was made from, and its payload in the build() result
MadeFilter == ctor.made.filter
FilterPayload == built[1][2].artifactFilters[1]
\* the optional keys of a field-value payload and the arguments they come from
FieldValueKeys ==
    {<<"condition", "condition">>, <<"fieldId", "field_id">>,
     <<"negateCondition", "negate_condition">>, <<"caseSensitive", "case_sensitive">>}

\* C13: the payload of a field-value filter has type "field" and the conditionType
\* given; it has each of condition, fieldId, negateCondition, caseSensitive exactly
\* when the argument is given and not None, with the argument's value (False
\* included); it has no other key and no key holds null.
C13_FieldValueOptionalKeys ==
    (built # NotBuilt /\ MadeFilter.cls = "GovernFieldValueArtifactFilter") =>
        /\ FilterPayload.type = "field"
        /\ FilterPayload.conditionType = MadeFilter.condition_type
        /\ DOMAIN FilterPayload \subseteq
                {"type", "conditionType"} \cup {k[1] : k \in FieldValueKeys}
        /\ \A k \in FieldValueKeys :
                /\ k[1] \in DOMAIN FilterPayload <=>
                        Param(MadeFilter.kwargs, k[2], None) # None
                /\ k[1] \in DOMAIN FilterPayload =>
                        /\ FilterPayload[k[1]] = MadeFilter.kwargs[k[2]]
                        /\ FilterPayload[k[1]] # None

C13_Witness ==
    /\ built # NotBuilt
    /\ MadeFilter = [cls |-> "GovernFieldValueArtifactFilter", condition_type |-> "EQUALS",
                     kwargs |-> [condition |-> None, negate_condition |-> Val(FALSE)]]
    /\ FilterPayload = [type |-> "field", conditionType |-> "EQUALS",
                        negateCondition |-> Val(FALSE)]

\* the arguments the source was made from, and its payload in the build() result
MadeSource == ctor.made.source
SourcePayload == built[1][1]
\* the id list a source sends for an ids argument
IdsSent(ids) == IF ids = None THEN Val(<<>>) ELSE ids

\* C17: the all source builds to {type: "all"} alone; the blueprints, blueprint
\* versions and artifacts sources build to their type with the ids under
\* blueprintIds, blueprintVersionIds and artifactIds; ids omitted are sent as the
\* empty list, not as null.
C17_SourcePayloads ==
    built # NotBuilt =>
        /\ MadeSource.cls = "GovernArtifactSearchSourceAll" =>
                SourcePayload = [type |-> "all"]
        /\ MadeSource.cls = "GovernArtifactSearchSourceBlueprints" =>
                SourcePayload = [type |-> "blueprints",
                                 blueprintIds |-> IdsSent(MadeSource.ids)]
        /\ MadeSource.cls = "GovernArtifactSearchSourceBlueprintVersions" =>
                SourcePayload = [type |-> "blueprintVersions",
                                 blueprintVersionIds |-> IdsSent(MadeSource.ids)]
        /\ MadeSource.cls = "GovernArtifactSearchSourceArtifacts" =>
                SourcePayload = [type |-> "artifacts",
                                 artifactIds |-> IdsSent(MadeSource.ids)]

C17_Witness ==
    /\ built # NotBuilt
    /\ MadeSource = [cls |-> "GovernArtifactSearchSourceBlueprints", ids |-> None]
    /\ SourcePayload = [type |-> "blueprints", blueprintIds |-> Val(<<>>)]
    /\ SourcePayload.blueprintIds # None

\* the arguments the sort was made from, and its payload in the build() result
MadeSort == ctor.made.sort
SortPayload == built[1][2].artifactSearchSort
DirectionSent == Param(MadeSort.kwargs, "direction", "ASC")

\* C18: a sort builds to {direction, column}, the direction being the one given
\* or "ASC"; the column of the name sort is {type: "name"}, of the workflow sort
\* {type: "workflow"}, of the field sort {type: "field", fields} with the list
\* given or the empty list; no other sort has a fields key.
C18_SortPayloads ==
    built # NotBuilt =>
        /\ MadeSort.cls = "GovernArtifactSearchSortName" =>
                SortPayload = [direction |-> DirectionSent, column |-> [type |-> "name"]]
        /\ MadeSort.cls = "GovernArtifactSearchSortWorkflow" =>
                SortPayload = [direction |-> DirectionSent, column |-> [type |-> "workflow"]]
        /\ MadeSort.cls = "GovernArtifactSearchSortField" =>
                SortPayload =
                    [direction |-> DirectionSent,
                     column |-> [type |-> "field",
                                 fields |-> IdsSent(Param(MadeSort.kwargs, "fields", None))]]

C18_Witness ==
    /\ built # NotBuilt
    /\ MadeSort = [cls |-> "GovernArtifactSearchSortField", kwargs |-> EmptyDict]
    /\ SortPayload = [direction |-> "ASC", column |-> [type |-> "field", fields |-> Val(<<>>)]]

----------------------------------------------------------------------------
\* Properties of the handles (SpecHandles)

\* the last method call of the handle was of this method
Called(method) == hout # NoCall /\ hout.method = method

\* C19: GovernCustomPage.get_definition() issues one GET to
\* /custom-page/<custom_page_id> through the client the handle was built with and
\* returns a GovernCustomPageDefinition whose get_raw() is the JSON that call
\* returned.
C19_GetDefinitionFetchesPage ==
    Called("get_definition") =>
        /\ Len(hlog) = 1
        /\ hlog[1].request = [client |-> hobj.attrs.client, method |-> "GET",
                              path |-> <<"custom-page", hobj.attrs.custom_page_id>>]
        /\ hlog[1].reply.ok =>
                /\ hout.kind = "return"
                /\ hout.value # None
                /\ hout.value[1].class = "GovernCustomPageDefinition"
                /\ get_raw(hout.value[1]) = hlog[1].reply.json[1]

\* the listing list_versions returned to the last get_active_version
Listed == hlog[1].reply.json[1]

\* C20: get_active_version() makes exactly one versions-listing call; when it
\* returns, it returns None if no listed version is active and otherwise the first
\* version of the listing, in its order, that is active.
C20_FirstActiveVersion ==
    Called("get_active_version") =>
        /\ Len(hlog) = 1
        /\ hlog[1].request =
                [client |-> hobj.attrs.client, method |-> "GET",
                 path |-> <<"projects", hobj.attrs.project_key, "savedmodels",
                            hobj.attrs.sm_id, "versions">>]
        /\ hlog[1].reply.ok <=> hout.kind = "return"
        /\ hout.kind = "return" =>
                IF \A i \in 1..Len(Listed) : ~Listed[i].active
                THEN hout.value = None
                ELSE \E i \in 1..Len(Listed) :
                        /\ Listed[i].active
                        /\ \A j \in 1..(i - 1) : ~Listed[j].active
                        /\ hout.value = Val(Listed[i])

C20_Witness ==
    /\ Called("get_active_version")
    /\ hout.kind = "return"
    /\ Len(Listed) = 3
    /\ ~Listed[1].active /\ Listed[2].active /\ Listed[3].active
    /\ Listed[2].id # Listed[3].id
    /\ hout.value = Val(Listed[2])

\* the sessions listing the last unload got, as decoded; its DELETE requests
SessionsListed == hlog[1].reply.json[1]
Deletes == {i \in 1..Len(hlog) : hlog[i].request.method = "DELETE"}
\* unload was given a session_id
GivenSessionId == hout.args.session_id # None

\* C21: unload() raises "Notebook isn't running" and sends no DELETE whenever the
\* sessions listing is null or empty, with or without a session_id argument.
C21_NotRunningWithoutSessions ==
    (/\ Called("unload")
     /\ hlog[1].reply.ok
     /\ (SessionsListed = None \/ SessionsListed = Val(<<>>))) =>
        /\ hout.kind = "raise"
        /\ hout.exc = Val(NotRunning)
        /\ Deletes = {}
        /\ Len(hlog) = 1

C21_Witness ==
    /\ Called("unload")
    /\ hlog[1].reply.ok
    /\ SessionsListed = Val(<<>>)
    /\ GivenSessionId
    /\ hout.exc = Val(NotRunning)

\* C22: unload() without session_id raises "Several sessions of the notebook are
\* running, choose one" and sends no DELETE when more than one session is listed;
\* when exactly one is listed it sends exactly one DELETE, for the sessionId of
\* that session.
C22_UnloadWithoutSessionId ==
    (/\ Called("unload")
     /\ ~GivenSessionId
     /\ hlog[1].reply.ok
     /\ SessionsListed # None) =>
        /\ Len(SessionsListed[1]) > 1 =>
                /\ hout.kind = "raise"
                /\ hout.exc = Val(SeveralSessions)
                /\ Deletes = {}
        /\ Len(SessionsListed[1]) = 1 =>
                /\ Cardinality(Deletes) = 1
                /\ hlog[2].request =
                        [client |-> hobj.attrs.client, method |-> "DELETE",
                         path |-> <<"projects", hobj.attrs.project_key,
                                    "jupyter-notebooks", hobj.attrs.notebook_name,
                                    "sessions",
                                    Str(DictGet(SessionsListed[1][1], "sessionId"))>>]
                /\ "sessionId" \in DOMAIN SessionsListed[1][1] =>
                        hlog[2].request.path[6] = SessionsListed[1][1].sessionId[1]

C22_Witness ==
    /\ Called("unload")
    /\ ~GivenSessionId
    /\ hlog[1].reply.ok
    /\ SessionsListed = Val(<<[sessionId |-> Val("sess-1")]>>)
    /\ Len(hlog) = 2
    /\ hlog[2].request.path[6] = "sess-1"
    /\ hout.kind = "return"

\* C23: unload(session_id) with a session_id and at least one listed session sends
\* exactly one DELETE, for the session_id given, after the GET of the sessions
\* listing, whether or not that id is among the listed sessions and whatever their
\* number.
C23_UnloadGivenSessionId ==
    (/\ Called("unload")
     /\ GivenSessionId
     /\ hlog[1].reply.ok
     /\ SessionsListed # None
     /\ SessionsListed # Val(<<>>)) =>
        /\ Len(hlog) = 2
        /\ hlog[1].request =
                [client |-> hobj.attrs.client, method |-> "GET",
                 path |-> <<"projects", hobj.attrs.project_key, "jupyter-notebooks",
                            hobj.attrs.notebook_name, "sessions">>]
        /\ Deletes = {2}
        /\ hlog[2].request =
                [client |-> hobj.attrs.client, method |-> "DELETE",
                 path |-> <<"projects", hobj.attrs.project_key, "jupyter-notebooks",
                            hobj.attrs.notebook_name, "sessions",
                            hout.args.session_id[1]>>]

C23_Witness ==
    /\ Called("unload")
    /\ hout.args.session_id = Val("sess-9")
    /\ hlog[1].reply.ok
    /\ SessionsListed = Val(<<[sessionId |-> Val("sess-1")], [sessionId |-> Val("sess-2")]>>)
    /\ Deletes = {2}
    /\ hlog[2].request.path[6] = "sess-9"

\* the value a method call of the handle returned
ReturnedObject == hout.value[1]

\* C24: FMClient(...) succeeds exactly when cloud is "AWS" or "Azure" and
\* api_key_id and api_key_secret are both non-None; otherwise it raises ValueError,
\* the one about the cloud when the cloud is wrong, whatever the keys.  On a
\* constructed client, new_virtual_network_creator, new_instance_template_creator
\* and new_instance_creator each return the creator of the client's cloud, never
\* None.
C24_FMClientConstruction ==
    /\ Called("__init__") =>
            LET cloudOk == hout.args.cloud \in {Val("AWS"), Val("Azure")}
                keysOk == hout.args.api_key_id # None /\ hout.args.api_key_secret # None
            IN  /\ hout.kind = "return" <=> (cloudOk /\ keysOk)
                /\ hout.kind = "return" =>
                        /\ hobj = ReturnedObject
                        /\ hobj.attrs.cloud = hout.args.cloud[1]
                /\ ~cloudOk => hout.exc = Val(CloudError) /\ hobj = NoHandles
                /\ (cloudOk /\ ~keysOk) => hout.exc = Val(ApiKeyError) /\ hobj = NoHandles
    /\ (hobj # NoHandles /\ hobj.class = "FMClient") =>
            /\ hobj.attrs.cloud \in {"AWS", "Azure"}
            /\ \A m \in {"new_virtual_network_creator", "new_instance_template_creator",
                          "new_instance_creator"} :
                    Called(m) =>
                        /\ hout.kind = "return"
                        /\ hout.value # None
                        /\ ReturnedObject.client = hobj
                        /\ ReturnedObject.class =
                                (CASE m = "new_virtual_network_creator" ->
                                        VirtualNetworkCreators
                                   [] m = "new_instance_template_creator" ->
                                        InstanceSettingsTemplateCreators
                                   [] OTHER -> InstanceCreators)[hobj.attrs.cloud]

C24_Witness ==
    /\ hobj # NoHandles
    /\ hobj.class = "FMClient"
    /\ hobj.attrs.cloud = "Azure"
    /\ Called("new_instance_creator")
    /\ hout.value # None
    /\ ReturnedObject.class = "FMAzureInstanceCreator"

\* the response the session gave to the last _perform_http
HttpResponse == hlog[1].reply.response[1]

\* C25: _perform_http makes exactly one HTTP request per call.  A response with a
\* failed status is raised as a DataikuException whose message is
\* "<errorType>: <message>" of the JSON error body, with "Unknown error" and
\* "No message" for a missing key and the text of the response as message when
\* it is not JSON; an exception of the network goes through unchanged.  When body
\* and raw_body are both given, raw_body is what is sent.
C25_PerformHttp ==
    Called("_perform_http") =>
        /\ Len(hlog) = 1
        /\ hlog[1].request.method = hout.args.method
        /\ (hout.args.body # None /\ hout.args.raw_body # None) =>
                hlog[1].request.data = hout.args.raw_body
        /\ (hout.args.body = Val([label |-> "instance-1"]) /\ hout.args.raw_body = None) =>
                hlog[1].request.data = Val("{\"label\": \"instance-1\"}")
        /\ ~hlog[1].reply.ok =>
                hout.kind = "raise" /\ hout.exc = hlog[1].reply.exc
        /\ (hlog[1].reply.ok /\ HttpResponse.status >= 400) =>
                /\ hout.kind = "raise"
                /\ hout.exc[1].type = "DataikuException"
                /\ hout.exc[1].message =
                        IF HttpResponse.decoded = None
                        THEN "Unknown error: " \o HttpResponse.text
                        ELSE (IF "errorType" \in DOMAIN HttpResponse.decoded[1]
                              THEN Str(HttpResponse.decoded[1].errorType)
                              ELSE "Unknown error")
                             \o ": " \o
                             (IF "message" \in DOMAIN HttpResponse.decoded[1]
                              THEN Str(HttpResponse.decoded[1].message)
                              ELSE "No message")
        /\ (hlog[1].reply.ok /\ HttpResponse.status < 400) =>
                hout.kind = "return" /\ hout.value = Val(HttpResponse)

C25_Witness ==
    /\ Called("_perform_http")
    /\ hout.args.body # None /\ hout.args.raw_body # None
    /\ hlog[1].request.data = Val("raw-bytes")
    /\ hlog[1].request.data # Val("{\"label\": \"instance-1\"}")
    /\ hlog[1].reply.ok
    /\ HttpResponse.status = 404
    /\ hout.exc = Val(DataikuException("Unknown error: no such instance"))

\* the metadata the GET of the last set_core_metadata fetched, and the body it put
Fetched == hlog[1].reply.json[1]
PutBody == hlog[2].request.body
\* the keys set_core_metadata may write, with the argument of each
WrittenKeys ==
    [targetColumnName |-> hout.args.target_column_name,
     classLabels |-> hout.args.class_labels,
     gatherFeaturesFromDataset |-> hout.args.get_features_from_dataset]

----------------------------------------------------------------------------
\* Properties of a request whose query goes on changing (SpecLive)

\* the payloads build() gave when the request was constructed
PayloadsAtConstruction ==
    LET q == QueryInit(ctor.artifact_search_source, ctor.artifact_filters_list,
                       ctor.artifact_search_sort)
    IN  RequestInit(q.artifact_search_source, q.artifact_filters_list,
                    q.artifact_search_sort)
\* what build() would give now
PayloadsNow ==
    QueryBuild(artifact_search_source, artifact_filters_list, artifact_search_sort)

\* C27: the request holds the searchSource and query payloads computed at its
\* construction: every perform_search sends them, the mutators of the query
\* called after build_request change neither them nor what is sent, and
\* perform_search changes nothing of the query or of these payloads.
C27_PayloadsFixedAtConstruction ==
    /\ [](/\ search_source = PayloadsAtConstruction.search_source
          /\ query = PayloadsAtConstruction.query
          /\ wire.last # None =>
                /\ wire.last[1].body.searchSource = PayloadsAtConstruction.search_source
                /\ wire.last[1].body.query = PayloadsAtConstruction.query)
    /\ [][/\ pc' # pc => UNCHANGED <<queryVars, search_source, query, handleVars>>
          /\ nmut' # nmut => UNCHANGED <<requestVars, callVars>>]_vars

C27_Witness ==
    /\ pc[Caller] = "wait"
    /\ hist.calls >= 2
    /\ qh.source_call # None /\ qh.added # <<>> /\ qh.sort_call # None
    /\ PayloadsNow[1] # search_source
    /\ PayloadsNow[2] # query
    /\ wire.last[1].body.searchSource = search_source
    /\ wire.last[1].body.query = query

----------------------------------------------------------------------------
\* build() as a read of the query (SpecQuery)

\* what the build() before the last returned, no mutator called in between
BuiltBefore == built[2]

\* C30: build() reads the query only: it leaves the source, the filters and the sort
\* as they are and touches neither request nor transport; what it returns is the
\* build of the fields as they are, whatever was built before, so two build()
\* calls with no mutator in between return equal pairs.
C30_BuildIsPureRead ==
    /\ [](built # NotBuilt =>
            /\ built[1] = PayloadsNow
            /\ BuiltBefore # None => BuiltBefore[1] = built[1])
    /\ [][(built' # built /\ built' # NotBuilt) =>
            UNCHANGED <<artifact_search_source, artifact_filters_list,
                        artifact_search_sort, requestVars, callVars, handleVars>>]_vars

C30_Witness ==
    /\ built # NotBuilt
    /\ BuiltBefore # None
    /\ nmut = 2
    /\ Len(artifact_filters_list) = 2
    /\ artifact_filters_list[2].cls = "GovernFieldValueArtifactFilter"
    /\ Len(built[1][2].artifactFilters) = 2
    /\ BuiltBefore[1] = built[1]

====
